---- MODULE Spec2Model ----
(***************************************************************************)
(* TripAdvisor scraper (src/web_scapping/models.py): the Business and      *)
(* Review records, their identity hashes, the MongoDB gateway              *)
(* TripAdvisorMongoClient and the two crawls of TripAdvisorWebScrapper.    *)
(***************************************************************************)
EXTENDS Integers, Sequences, FiniteSets, TLC

(***************************************************************************)
(* Bounds of the model.                                                    *)
(***************************************************************************)
\* calls a caller makes on the gateway in one behaviour
MaxCalls == 2
\* documents already in the collection when the client connects
MaxPrior == 1
\* listing elements of one page
MaxListings == 2
\* review cards of one page
MaxCards == 2
\* invocations of a crawl in one behaviour (the crawl, then its re-runs)
MaxRuns == 2
\* pages one pagination loop fetches before the model stops following it
MaxFetches == 3

(***************************************************************************)
(* State.                                                                  *)
(***************************************************************************)
VARIABLES
    collection,   \* TripAdvisorMongoClient.collection: the stored documents
    calls,        \* the caller's last two gateway calls: [op, arg, ret, before]
    ncalls,       \* how many gateway calls (inserts and gets) the caller has made
    site,         \* the page each URL fetched so far serves (it serves it at every fetch)
    loaded,       \* web_driver: the URL whose page is page_source, None before any get
    pc,           \* the crawl: "idle", "FOR_BUSINESS", "ON_PAGE", "DONE" (returned), "RAISED"
    fn,           \* the crawl invoked: "get_and_store_businesses" or "get_and_store_reviews"
    arg,          \* its argument: start_url, or the list businesses
    records,      \* its local list: businesses, or reviews
    bi,           \* get_and_store_reviews: how many businesses the for loop has taken
    result,       \* <<the returned list>>, <<>> while nothing has been returned
    exc,          \* where this invocation raised: "none", "fetch", "parse", "store"
    run,          \* invocations started
    fetched,      \* the URLs the current pagination loop has fetched, in order
    lastLoop,     \* the last pagination loop that ended for want of a Next link
    rets,         \* the return values of this invocation's inserts
    extracted,    \* the records of the pages this invocation has persisted entirely
    firstRun,     \* the collection as the first invocation left it: [collection]
    x_page,       \* the page handed to get_all_reviews_in_page, called on its own
    x_business,   \* the business dict handed to it
    x_reviews,    \* <<the list it returned>>, <<>> before the call
    got,          \* the caller's last get_businesses / get_reviews call: [op, ret, of]
    session,      \* web_driver's browser session: "open" or "closed"
    writers,      \* the clients inside insert_business / insert_review: [pc, op, arg, ret]
    fitbit,       \* FitbitMongoClient.collection: the stored documents
    api,          \* what the Fitbit API holds: [sleep, heart], the samples of each day
    imports       \* the import calls made so far: [op, startTime, endTime]

storeVars == <<calls, ncalls>>

extractVars == <<x_page, x_business, x_reviews>>

writerVars == <<writers>>

fitbitVars == <<fitbit, api, imports>>

\* what the gateway's inserts and the crawls leave alone
otherVars == <<extractVars, got, session, writerVars, fitbitVars>>

crawlVars ==
    <<site, loaded, pc, fn, arg, records, bi, result, exc, run, fetched, lastLoop,
      rets, extracted, firstRun>>

vars == <<collection, storeVars, crawlVars, otherVars>>

(***************************************************************************)
(* Values.                                                                 *)
(***************************************************************************)
\* Python's None
None == <<>>

\* class MongoDocumentType
BUSINESS == "business"
REVIEW == "review"

\* TripAdvisorWebScrapper.TRIP_ADVISOR_URL
TRIP_ADVISOR_URL == "https://www.tripadvisor.com"

\* the href attributes found in pages (paths below TRIP_ADVISOR_URL)
Hrefs == {"/a", "/b"}

\* TRIP_ADVISOR_URL + href: the concatenation, kept as the pair of its parts
Url(href) == <<TRIP_ADVISOR_URL, href>>

Urls == {Url(h) : h \in Hrefs}

Names == {"Alfa", "Bravo"}

\* calendar dates (datetime.date), as <<year, month, day>>
Dates == {<<2023, 1, 1>>, <<2023, 4, 3>>}

\* str(date): ISO-8601 text; str(None) is the text "None"
Str(d) == IF d = None THEN <<"None">> ELSE <<"iso", d[1], d[2], d[3]>>

(***************************************************************************)
(* class Business                                                          *)
(***************************************************************************)
Business(business_name, business_url) ==
    [business_name |-> business_name, business_url |-> business_url]

Businesses == {Business(n, u) : n \in Names, u \in Urls}

(***************************************************************************)
(* class Review                                                            *)
(***************************************************************************)
Review(business, reviewer, review_date, visit_data, review_title, review_text, review_rating) ==
    [business |-> business, reviewer |-> reviewer, review_date |-> review_date,
     visit_data |-> visit_data, review_title |-> review_title,
     review_text |-> review_text, review_rating |-> review_rating]

\* <<review_date, visit_data>> of the Review objects below: the constructor's
\* defaults, and the dates of a parsed review card
DatePairs == {<<None, None>>, <<<<2023, 1, 1>>, <<2023, 4, 3>>>>}

\* the Review objects a caller hands to the gateway
Reviews ==
    {Review(b, "ann", dp[1], dp[2], "Nice", "good food", 4) :
        b \in Businesses, dp \in DatePairs}

(***************************************************************************)
(* json.dumps(obj, sort_keys=True) of a flat mapping: the members in the   *)
(* order of their keys.  SortedKeys lists the keys that occur, sorted as   *)
(* Python sorts strings ("review_" sorts before "reviewer": '_' < 'e').    *)
(***************************************************************************)
SortedKeys ==
    <<"business", "business_name", "business_url", "review_date", "review_rating",
      "review_text", "review_title", "reviewer", "visit_data">>

JsonDumps(obj) ==
    LET IsKey(k) == k \in DOMAIN obj
        keys == SelectSeq(SortedKeys, IsKey)
    IN  [i \in 1..Len(keys) |-> <<keys[i], obj[keys[i]]>>]

\* a digest salted per process, as Python's built-in hash() is
Sha256HexDigest_PerProcess(text) == <<"hash", run, text>>

\* hashlib.sha256(text.encode()).hexdigest(): one digest per text
\* (collision resistance: distinct texts have distinct digests)
Sha256HexDigest(text) == <<"sha256", text>>

\* Business.get_object_hash: default=lambda o: o.__dict__ serialises every attribute
Business_get_object_hash(self) ==
    Sha256HexDigest(JsonDumps(self))

\* a hash that drops the url from the serialisation
Business_get_object_hash_NameOnly(self) ==
    Sha256HexDigest(JsonDumps([business_name |-> self.business_name]))

\* the hash_data mapping of Review.get_object_hash
Review_hash_data_WithDate(self) ==
    [business |-> self.business.business_name,
     reviewer |-> self.reviewer,
     review_date |-> Str(self.review_date),
     review_title |-> self.review_title,
     review_text |-> self.review_text,
     review_rating |-> self.review_rating]

Review_hash_data(self) ==
    [business |-> self.business.business_name,
     reviewer |-> self.reviewer,
     review_title |-> self.review_title,
     review_text |-> self.review_text,
     review_rating |-> self.review_rating]

Review_get_object_hash(self) ==
    Sha256HexDigest(JsonDumps(Review_hash_data(self)))

\* Business.to_mongo_document
Business_to_mongo_document(self) ==
    [unique_id |-> Business_get_object_hash(self),
     type |-> BUSINESS,
     business_name |-> self.business_name,
     business_url |-> self.business_url]

\* Review.to_mongo_document
Review_to_mongo_document(self) ==
    [unique_id |-> Review_get_object_hash(self),
     type |-> REVIEW,
     reviewer |-> self.reviewer,
     business_reviewed |-> self.business.business_name,
     review_date |-> Str(self.review_date),
     review_title |-> self.review_title,
     review_text |-> self.review_text,
     review_rating |-> self.review_rating,
     visit_data |-> Str(self.visit_data)]

(***************************************************************************)
(* The collection (pymongo): a sequence of documents in insertion order.   *)
(***************************************************************************)
\* a document matches a filter when it has every key of the filter with the same value
Matches(doc, filter) ==
    \A k \in DOMAIN filter : k \in DOMAIN doc /\ doc[k] = filter[k]

\* collection.find(filter): the matching documents, in order
Find(coll, filter) ==
    LET Hit(doc) == Matches(doc, filter) IN SelectSeq(coll, Hit)

\* collection.find_one(filter): None, or the first matching document
FindOne(coll, filter) ==
    LET hits == Find(coll, filter)
    IN  IF hits = <<>> THEN None ELSE hits[1]

\* collection.insert_one(doc): the document gets a fresh _id and is appended
InsertOne(coll, doc) ==
    Append(coll, [k \in DOMAIN doc \cup {"_id"} |->
                    IF k = "_id" THEN Len(coll) + 1 ELSE doc[k]])

(***************************************************************************)
(* class TripAdvisorMongoClient                                            *)
(***************************************************************************)
\* the filter of the existence test of insert_business / insert_review
ExistsFilter_WithType(unique_id, type) == [unique_id |-> unique_id, type |-> type]

\* the empty filter, which every document matches
ExistsFilter_Empty(unique_id, type) == <<>>

\* a filter on a key the stored documents do not carry
ExistsFilter_WrongKey(unique_id, type) == [id |-> unique_id]

ExistsFilter(unique_id, type) == [unique_id |-> unique_id]

\* an existence test that never finds anything
Exists_Never(coll, unique_id, type) == FALSE

Exists(coll, unique_id, type) ==
    FindOne(coll, ExistsFilter(unique_id, type)) # None

\* insert_business(business): [ret, coll] the return value and the collection after
insert_business(coll, business) ==
    IF Exists(coll, Business_get_object_hash(business), BUSINESS)
    THEN [ret |-> FALSE, coll |-> coll]
    ELSE [ret |-> TRUE, coll |-> InsertOne(coll, Business_to_mongo_document(business))]

\* an insert that overwrites the stored document of the same unique_id
insert_review_Replace(coll, review) ==
    IF Exists(coll, Review_get_object_hash(review), REVIEW)
    THEN [ret |-> FALSE,
          coll |-> [i \in 1..Len(coll) |->
                      IF coll[i].unique_id = Review_get_object_hash(review)
                      THEN Review_to_mongo_document(review) @@ [_id |-> coll[i]._id]
                      ELSE coll[i]]]
    ELSE [ret |-> TRUE, coll |-> InsertOne(coll, Review_to_mongo_document(review))]

\* insert_review(review)
insert_review(coll, review) ==
    IF Exists(coll, Review_get_object_hash(review), REVIEW)
    THEN [ret |-> FALSE, coll |-> coll]
    ELSE [ret |-> TRUE, coll |-> InsertOne(coll, Review_to_mongo_document(review))]

(***************************************************************************)
(* Rendered pages, as bs4 shows them to the scraper.                       *)
(*   listings: the <div class=business_class> elements                     *)
(*   cards:    the <div data-automation=reviewCard> elements               *)
(*   nav:      the <a class=next_page_arrow_class> anchors                 *)
(* A failed Python call (an exception) is the result Raise.                *)
(***************************************************************************)
Raise == [ok |-> FALSE]
Return(val) == [ok |-> TRUE, val |-> val]

\* text.split('.', 1)[-1].strip(): a text is the sequence of its parts between
\* dots, each already stripped; what follows the first dot is kept
SplitLast(text) ==
    IF Len(text) <= 2 THEN text[Len(text)] ELSE Tail(text)

\* the first part is kept instead of the last
SplitFirst(text) == text[1]

\* one element of get_all_business_in_page: element.div.div raises when the inner
\* div is absent, TRIP_ADVISOR_URL + element.a.get('href') when the link is absent
\* (a part of the markup that is absent is a field the element does not have)
BusinessOfElement(element) ==
    IF "text" \notin DOMAIN element \/ "href" \notin DOMAIN element
    THEN Raise
    ELSE Return(Business(SplitLast(element.text), Url(element.href)))

\* get_all_business_in_page: the first element that raises aborts the page
RECURSIVE get_all_business_in_page_from(_, _)
get_all_business_in_page_from(elements, business_in_page) ==
    IF elements = <<>> THEN Return(business_in_page)
    ELSE LET b == BusinessOfElement(Head(elements))
         IN  IF ~b.ok THEN Raise
             ELSE get_all_business_in_page_from(Tail(elements), Append(business_in_page, b.val))

get_all_business_in_page(current_page) ==
    get_all_business_in_page_from(current_page.listings, <<>>)

\* find_next_page_arrow: the first anchor labelled "Next page"; an anchor
\* without aria-label raises KeyError when the loop reaches it
RECURSIVE find_next_page_arrow_from(_)
find_next_page_arrow_from(arrows) ==
    IF arrows = <<>> THEN Return(None)
    ELSE LET element == Head(arrows)
         IN  IF "aria_label" \notin DOMAIN element THEN Raise
             ELSE IF element.aria_label = "Next page" THEN Return(element)
             ELSE find_next_page_arrow_from(Tail(arrows))

\* the first anchor is taken whatever its label
find_next_page_arrow_First(current_page) ==
    IF current_page.nav = <<>> THEN Return(None) ELSE Return(current_page.nav[1])

\* a Next link whose target this loop has fetched already is not followed
find_next_page_arrow_Unvisited(current_page) ==
    LET found == find_next_page_arrow_from(current_page.nav)
    IN  IF found.ok /\ found.val # None
           /\ \E i \in 1..Len(fetched) : fetched[i] = Url(found.val.href)
        THEN Return(None)
        ELSE found

find_next_page_arrow(current_page) ==
    find_next_page_arrow_from(current_page.nav)

(***************************************************************************)
(* Review cards.  A card has the fields its markup holds:                  *)
(*   username, title, text: the stripped text of the element               *)
(*   date:  the parts of the date line between " \u2022 " separators         *)
(*   label: the words of the aria-label of the rating svg                  *)
(*   visit: the words of the "Written ..." line, the date being one word   *)
(***************************************************************************)
\* datetime.strptime(s, "%b %Y").date(), on the texts that occur
MonthYearTexts ==
    ("Jan 2023" :> <<2023, 1, 1>>) @@ ("Apr 2023" :> <<2023, 4, 1>>)

StrptimeMonthYear(s) ==
    IF s \in DOMAIN MonthYearTexts THEN Return(MonthYearTexts[s]) ELSE Raise

\* datetime.strptime(s, "%B %d, %Y").date(), on the texts that occur
LongDateTexts ==
    ("April 3, 2023" :> <<2023, 4, 3>>) @@ ("January 9, 2023" :> <<2023, 1, 9>>)

StrptimeLongDate(s) ==
    IF s \in DOMAIN LongDateTexts THEN Return(LongDateTexts[s]) ELSE Raise

\* the words that match [\d.]+
NumberLike == {"4.7", "5.0", "4", "5", "."}

\* int(float(s)): truncation; float(".") raises ValueError
IntOfFloatTexts == ("4.7" :> 4) @@ ("5.0" :> 5) @@ ("4" :> 4) @@ ("5" :> 5)

\* rounding to the nearest integer instead
IntOfFloat_Rounded(s) ==
    IF s = "4.7" THEN Return(5)
    ELSE IF s \in DOMAIN IntOfFloatTexts THEN Return(IntOfFloatTexts[s]) ELSE Raise

IntOfFloat(s) ==
    IF s \in DOMAIN IntOfFloatTexts THEN Return(IntOfFloatTexts[s]) ELSE Raise

\* re.search(r'([\d.]+)\s*of', aria_label).group(1): the first number followed by "of"
RECURSIVE RatingValue(_)
RatingValue(label) ==
    IF Len(label) < 2 THEN Raise
    ELSE IF label[1] \in NumberLike /\ label[2] = "of" THEN Return(label[1])
    ELSE RatingValue(Tail(label))

\* review_visit.replace("Written ", "")
RemoveWritten(visit) ==
    LET Kept(w) == w # "Written" IN SelectSeq(visit, Kept)

\* the try block of get_all_reviews_in_page: the six fields of one card
ParseCard(card) ==
    IF {"username", "date", "title", "text", "label", "visit"} \subseteq DOMAIN card
    THEN LET review_date == StrptimeMonthYear(card.date[1])
             rating_value == RatingValue(card.label)
             review_rating == IF rating_value.ok THEN IntOfFloat(rating_value.val) ELSE Raise
             visit_date_str == RemoveWritten(card.visit)
             review_visit_date ==
                 IF Len(visit_date_str) = 1 THEN StrptimeLongDate(visit_date_str[1]) ELSE Raise
         IN  IF review_date.ok /\ review_rating.ok /\ review_visit_date.ok
             THEN Return([review_username |-> card.username,
                          review_date |-> review_date.val,
                          review_title |-> card.title,
                          review_text |-> card.text,
                          review_rating |-> review_rating.val,
                          review_visit_date |-> review_visit_date.val])
             ELSE Raise
    ELSE Raise

\* the Review built from a parsed card (models.py:235-249)
ReviewOfCard(fields, business) ==
    Review(Business(business.business_name, business.business_url),
           fields.review_username, fields.review_date, fields.review_visit_date,
           fields.review_title, fields.review_text, fields.review_rating)

\* the loop stops at the first card that raises
RECURSIVE get_all_reviews_in_page_Break(_, _, _)
get_all_reviews_in_page_Break(review_cards, business, reviews) ==
    IF review_cards = <<>> THEN reviews
    ELSE LET fields == ParseCard(Head(review_cards))
         IN  IF ~fields.ok THEN reviews
             ELSE get_all_reviews_in_page_Break(Tail(review_cards), business,
                      Append(reviews, ReviewOfCard(fields.val, business)))

\* the for loop of get_all_reviews_in_page: a card that raises is skipped
RECURSIVE get_all_reviews_in_page_from(_, _, _)
get_all_reviews_in_page_from(review_cards, business, reviews) ==
    IF review_cards = <<>> THEN reviews
    ELSE LET fields == ParseCard(Head(review_cards))
         IN  get_all_reviews_in_page_from(Tail(review_cards), business,
                 IF ~fields.ok THEN reviews
                 ELSE Append(reviews, ReviewOfCard(fields.val, business)))

get_all_reviews_in_page_Stop(current_page, business) ==
    get_all_reviews_in_page_Break(current_page.cards, business, <<>>)

get_all_reviews_in_page(current_page, business) ==
    get_all_reviews_in_page_from(current_page.cards, business, <<>>)

\* the documents a run of this program writes
ProgramDocs ==
    {Business_to_mongo_document(b) : b \in Businesses}
        \cup {Review_to_mongo_document(r) : r \in Reviews}

\* documents found in the collection at connection time: written by earlier
\* runs, or by another client of the same collection under either type tag
PriorDocs ==
    {[d EXCEPT !.type = t] : d \in ProgramDocs, t \in {BUSINESS, REVIEW}}

\* no two documents with the same unique_id and the same type
NoDuplicates(coll) ==
    \A i, j \in 1..Len(coll) :
        (coll[i].unique_id = coll[j].unique_id /\ coll[i].type = coll[j].type) => i = j

RECURSIVE InsertAll(_, _)
InsertAll(coll, docs) ==
    IF docs = <<>> THEN coll ELSE InsertAll(InsertOne(coll, Head(docs)), Tail(docs))

PriorStores ==
    {InsertAll(<<>>, docs) :
        docs \in {s \in UNION {[1..n -> PriorDocs] : n \in 0..MaxPrior} : NoDuplicates(s)}}

\* the last two calls
Remember(call) ==
    IF calls = <<>> THEN <<call>> ELSE <<calls[Len(calls)], call>>

\* TripAdvisorMongoClient.__init__: the client is bound to an existing collection
\* no crawl has been invoked
InitCrawlVars ==
    /\ site = <<>>
    /\ loaded = None
    /\ pc = "idle"
    /\ fn = "none"
    /\ arg = None
    /\ records = <<>>
    /\ bi = 0
    /\ result = <<>>
    /\ exc = "none"
    /\ run = 0
    /\ fetched = <<>>
    /\ lastLoop = <<>>
    /\ rets = <<>>
    /\ extracted = <<>>
    /\ firstRun = <<>>

\* get_all_reviews_in_page has not been called on its own
InitExtractVars ==
    /\ x_page = <<>>
    /\ x_business = <<>>
    /\ x_reviews = <<>>

\* TripAdvisorWebScrapper.__init__ (lines 158-160): the browser session is open
InitSession == session = "open"

\* no call of get_businesses / get_reviews yet
InitGot == got = None

\* no client is inside an insert
InitWriterVars == writers = <<>>

\* no FitbitMongoClient is in use
InitFitbitVars ==
    /\ fitbit = <<>>
    /\ api = <<>>
    /\ imports = <<>>

InitStore ==
    /\ collection \in PriorStores
    /\ calls = <<>>
    /\ ncalls = 0
    /\ InitCrawlVars
    /\ InitExtractVars
    /\ InitGot
    /\ InitSession
    /\ InitWriterVars
    /\ InitFitbitVars

\* a call insert_business(business)
CallInsertBusiness ==
    \E business \in Businesses :
        LET r == insert_business(collection, business) IN
        /\ ncalls < MaxCalls
        /\ ncalls' = ncalls + 1
        /\ collection' = r.coll
        /\ calls' = Remember([op |-> "insert_business", arg |-> business,
                              ret |-> r.ret, before |-> collection])
        /\ UNCHANGED <<crawlVars, otherVars>>

\* a call insert_review(review)
CallInsertReview ==
    \E review \in Reviews :
        LET r == insert_review(collection, review) IN
        /\ ncalls < MaxCalls
        /\ ncalls' = ncalls + 1
        /\ collection' = r.coll
        /\ calls' = Remember([op |-> "insert_review", arg |-> review,
                              ret |-> r.ret, before |-> collection])
        /\ UNCHANGED <<crawlVars, otherVars>>

\* the keys get_businesses / get_reviews leave out of a returned entry
StrippedKeys_KeepHash == {"_id", "type"}

StrippedKeys == {"_id", "unique_id", "type"}

\* {k: v for k, v in doc.items() if k not in ['_id', 'unique_id', 'type']}
Stripped(doc) == [k \in DOMAIN doc \ StrippedKeys |-> doc[k]]

\* [... for doc in cursor]
StrippedAll(docs) == [i \in 1..Len(docs) |-> Stripped(docs[i])]

\* TripAdvisorMongoClient.get_businesses (lines 137-142)
get_businesses(coll) == StrippedAll(Find(coll, [type |-> BUSINESS]))

\* TripAdvisorMongoClient.get_reviews (lines 144-149)
get_reviews(coll) == StrippedAll(Find(coll, [type |-> REVIEW]))

\* a call get_businesses()
CallGetBusinesses ==
    /\ ncalls < MaxCalls
    /\ ncalls' = ncalls + 1
    /\ got' = [op |-> "get_businesses", ret |-> get_businesses(collection),
               of |-> collection]
    /\ UNCHANGED <<collection, calls, crawlVars, extractVars, session, writerVars,
                   fitbitVars>>

\* a call get_reviews()
CallGetReviews ==
    /\ ncalls < MaxCalls
    /\ ncalls' = ncalls + 1
    /\ got' = [op |-> "get_reviews", ret |-> get_reviews(collection), of |-> collection]
    /\ UNCHANGED <<collection, calls, crawlVars, extractVars, session, writerVars,
                   fitbitVars>>

NextStore ==
    \/ CallInsertBusiness
    \/ CallInsertReview
    \/ CallGetBusinesses
    \/ CallGetReviews

SpecStore == InitStore /\ [][NextStore]_vars

(***************************************************************************)
(* The pages of the site.                                                  *)
(***************************************************************************)
\* sequences of at most n elements of S
SeqsUpTo(S, n) == UNION {[1..k -> S] : k \in 0..n}

\* listing elements: "1. Alfa" linking to /a, "Bravo" linking to /b, and an
\* element whose link is absent
ListingElems ==
    {[text |-> <<"1", "Alfa">>, href |-> "/a"],
     [text |-> <<"Bravo">>, href |-> "/b"],
     [text |-> <<"2", "Alfa">>]}

NextTo(href) == [aria_label |-> "Next page", href |-> href]
Prev == [aria_label |-> "Previous page", href |-> "/a"]

\* the navigation anchors of a page; the last one has an anchor without aria-label
Navs ==
    {<<>>, <<Prev>>, <<NextTo("/a")>>, <<Prev, NextTo("/b")>>, <<[href |-> "/b"]>>}

\* review cards: two well-formed cards
GoodCard ==
    [username |-> "ann", date |-> <<"Jan 2023", "Family">>, title |-> "Nice",
     text |-> "good food", label |-> <<"4.7", "of", "5", "bubbles">>,
     visit |-> <<"Written", "April 3, 2023">>]

OtherCard ==
    [username |-> "bob", date |-> <<"Apr 2023">>, title |-> "Fine",
     text |-> "slow service", label |-> <<"5.0", "of", "5", "bubbles">>,
     visit |-> <<"Written", "January 9, 2023">>]

\* the cards of the pages the review crawl meets: a well-formed card and one
\* whose date line does not parse
CrawlCards == {GoodCard, [OtherCard EXCEPT !.date = <<"yesterday">>]}

ListingPages ==
    [listings : SeqsUpTo(ListingElems, MaxListings), cards : {<<>>}, nav : Navs]

ReviewPages ==
    [listings : {<<>>}, cards : SeqsUpTo(CrawlCards, MaxCards), nav : Navs]

\* the business dicts handed to get_and_store_reviews (get_businesses() output)
BusinessDicts ==
    {[business_name |-> "Alfa", business_url |-> Url("/a")],
     [business_name |-> "Bravo", business_url |-> Url("/b")]}

BusinessLists ==
    {<<>>} \cup {<<b>> : b \in BusinessDicts}
           \cup {bs \in [1..2 -> BusinessDicts] : bs[1] # bs[2]}

\* what web_driver.get(url) can load: the page the URL served before, or, at the
\* first fetch of the URL, any page of the kind
Served(url, pages) ==
    IF url \in DOMAIN site THEN {site[url]} ELSE pages

\* web_driver.get(url) succeeded and page_source is page
Load(url, page) ==
    /\ site' = IF url \in DOMAIN site THEN site ELSE site @@ (url :> page)
    /\ loaded' = url

\* self.web_driver.page_source
page_source == site[loaded]

(***************************************************************************)
(* The for loops that persist the records of one page.                     *)
(***************************************************************************)
\* insert_business on each business in turn: [coll, rets]
RECURSIVE PersistBusinesses(_, _, _)
PersistBusinesses(coll, businesses, returned) ==
    IF businesses = <<>> THEN [coll |-> coll, rets |-> returned]
    ELSE LET r == insert_business(coll, Head(businesses))
         IN  PersistBusinesses(r.coll, Tail(businesses), Append(returned, r.ret))

\* insert_review on each review in turn: [coll, rets]
RECURSIVE PersistReviews(_, _, _)
PersistReviews(coll, reviews, returned) ==
    IF reviews = <<>> THEN [coll |-> coll, rets |-> returned]
    ELSE LET r == insert_review(coll, Head(reviews))
         IN  PersistReviews(r.coll, Tail(reviews), Append(returned, r.ret))

(***************************************************************************)
(* Invocation of a crawl by the caller.                                    *)
(***************************************************************************)
\* a crawl is entered: its locals are fresh
Invoke(f, a) ==
    /\ run' = run + 1
    /\ fn' = f
    /\ arg' = a
    /\ records' = <<>>
    /\ result' = <<>>
    /\ rets' = <<>>
    /\ extracted' = <<>>
    /\ lastLoop' = <<>>
    /\ bi' = 0
    /\ firstRun' = IF run = 1 THEN [collection |-> collection] ELSE firstRun
    /\ UNCHANGED <<collection, storeVars, otherVars>>

\* the caller has invoked nothing yet
FirstCall == pc = "idle"

\* the caller invokes again, with the same argument, the crawl f that ran to
\* its end without raising
CallAgain(f) ==
    /\ pc = "DONE"
    /\ exc = "none"
    /\ fn = f
    /\ run < MaxRuns

\* the invocation ends: return of the list, or an exception reaching the caller
ReturnRecords(list) ==
    /\ pc' = "DONE"
    /\ result' = <<list>>

Propagate ==
    /\ pc' = "RAISED"
    /\ result' = <<>>

(***************************************************************************)
(* TripAdvisorWebScrapper.get_and_store_businesses                         *)
(***************************************************************************)
\* lines 188-189: businesses = []; web_driver.get(start_url) raises, outside the try
B_Enter_FetchRaises(start_url) ==
    /\ Invoke("get_and_store_businesses", start_url)
    /\ exc' = "fetch"
    /\ Propagate
    /\ fetched' = <<>>
    /\ UNCHANGED <<site, loaded>>

\* lines 188-189: businesses = []; web_driver.get(start_url) loads the page
B_Enter(start_url) ==
    \E page \in Served(start_url, ListingPages) :
        /\ Invoke("get_and_store_businesses", start_url)
        /\ exc' = "none"
        /\ Load(start_url, page)
        /\ fetched' = <<start_url>>
        /\ pc' = "ON_PAGE"

B_Call_FetchRaises ==
    FirstCall /\ \E start_url \in Urls : B_Enter_FetchRaises(start_url)

B_Call ==
    FirstCall /\ \E start_url \in Urls : B_Enter(start_url)

B_Rerun_FetchRaises ==
    CallAgain("get_and_store_businesses") /\ B_Enter_FetchRaises(arg)

B_Rerun ==
    CallAgain("get_and_store_businesses") /\ B_Enter(arg)

B_OnPage ==
    /\ pc = "ON_PAGE"
    /\ fn = "get_and_store_businesses"

\* lines 194-195, 206-208: get_all_business_in_page raises; caught, break
B_ParseRaises ==
    /\ B_OnPage
    /\ ~get_all_business_in_page(page_source).ok
    /\ exc' = "parse"
    /\ ReturnRecords(records)
    /\ UNCHANGED <<otherVars, collection, storeVars, site, loaded, fn, arg, records, bi, run,
                   fetched, lastLoop, rets, extracted, firstRun>>

\* lines 195-197, 206-208: the k-th insert_business of the page raises after
\* businesses.append(business); caught, break
B_StoreRaises ==
    /\ B_OnPage
    /\ get_all_business_in_page(page_source).ok
    /\ LET in_page == get_all_business_in_page(page_source).val IN
       \E k \in 1..Len(in_page) :
          LET p == PersistBusinesses(collection, SubSeq(in_page, 1, k - 1), <<>>) IN
          /\ records' = records \o SubSeq(in_page, 1, k)
          /\ collection' = p.coll
          /\ rets' = rets \o p.rets
          /\ exc' = "store"
          /\ ReturnRecords(records')
    /\ UNCHANGED <<otherVars, storeVars, site, loaded, fn, arg, bi, run, fetched, lastLoop,
                   extracted, firstRun>>

\* the page is left without its businesses being appended or offered
B_PersistPage_Skipped ==
    /\ B_OnPage
    /\ get_all_business_in_page(page_source).ok
    /\ UNCHANGED <<records, collection, rets, extracted>>
    /\ UNCHANGED <<otherVars, storeVars, fn, arg, bi, run, firstRun>>

\* lines 194-197: every business of the page is appended and offered to the store
B_PersistPage ==
    /\ B_OnPage
    /\ get_all_business_in_page(page_source).ok
    /\ LET in_page == get_all_business_in_page(page_source).val
           p == PersistBusinesses(collection, in_page, <<>>) IN
       /\ records' = records \o in_page
       /\ collection' = p.coll
       /\ rets' = rets \o p.rets
       /\ extracted' = extracted \o in_page
    /\ UNCHANGED <<otherVars, storeVars, fn, arg, bi, run, firstRun>>

\* lines 199, 206-208: find_next_page_arrow raises; caught, break
B_ArrowRaises ==
    /\ B_PersistPage
    /\ ~find_next_page_arrow(page_source).ok
    /\ exc' = "parse"
    /\ ReturnRecords(records')
    /\ UNCHANGED <<site, loaded, fetched, lastLoop>>

\* lines 199-202, 210: no "Next page" arrow; break, return businesses
B_LastPage ==
    /\ B_PersistPage
    /\ find_next_page_arrow(page_source).ok
    /\ find_next_page_arrow(page_source).val = None
    /\ lastLoop' = [start |-> fetched[1], fetched |-> fetched]
    /\ ReturnRecords(records')
    /\ UNCHANGED <<site, loaded, fetched, exc>>

\* the page is fetched again instead of the next one
new_url_Same == loaded

\* the URL of the next page (line 203)
new_url == Url(find_next_page_arrow(page_source).val.href)

HasNextPage ==
    /\ find_next_page_arrow(page_source).ok
    /\ find_next_page_arrow(page_source).val # None
    /\ Len(fetched) < MaxFetches

\* lines 203-208: web_driver.get(new_url) raises; caught, break
B_FetchRaises ==
    /\ B_PersistPage
    /\ HasNextPage
    /\ exc' = "fetch"
    /\ ReturnRecords(records')
    /\ UNCHANGED <<site, loaded, fetched, lastLoop>>

\* lines 203-204: web_driver.get(new_url) loads the next page
B_NextPage ==
    /\ B_PersistPage
    /\ HasNextPage
    /\ \E page \in Served(new_url, ListingPages) : Load(new_url, page)
    /\ fetched' = Append(fetched, new_url)
    /\ UNCHANGED <<pc, result, exc, lastLoop>>

(***************************************************************************)
(* TripAdvisorWebScrapper.get_and_store_reviews                            *)
(***************************************************************************)
\* line 259: reviews = []
R_Enter(businesses) ==
    /\ Invoke("get_and_store_reviews", businesses)
    /\ exc' = "none"
    /\ pc' = "FOR_BUSINESS"
    /\ fetched' = <<>>
    /\ UNCHANGED <<site, loaded>>

R_Call ==
    FirstCall /\ \E businesses \in BusinessLists : R_Enter(businesses)

R_Rerun ==
    CallAgain("get_and_store_reviews") /\ R_Enter(arg)

R_ForBusiness ==
    /\ pc = "FOR_BUSINESS"
    /\ fn = "get_and_store_reviews"

\* lines 260, 274: the for loop is exhausted; return reviews
R_Return ==
    /\ R_ForBusiness
    /\ bi = Len(arg)
    /\ ReturnRecords(records)
    /\ UNCHANGED <<otherVars, collection, storeVars, site, loaded, fn, arg, records, bi, exc, run,
                   fetched, lastLoop, rets, extracted, firstRun>>

\* lines 260-261: web_driver.get(business['business_url']) raises; nothing catches it
R_BusinessFetchRaises ==
    /\ R_ForBusiness
    /\ bi < Len(arg)
    /\ exc' = "fetch"
    /\ Propagate
    /\ UNCHANGED <<otherVars, collection, storeVars, site, loaded, fn, arg, records, bi, run,
                   fetched, lastLoop, rets, extracted, firstRun>>

\* lines 260-261: the next business is taken and its review page loaded
R_BusinessPage ==
    /\ R_ForBusiness
    /\ bi < Len(arg)
    /\ bi' = bi + 1
    /\ \E page \in Served(arg[bi + 1].business_url, ReviewPages) :
          Load(arg[bi + 1].business_url, page)
    /\ fetched' = <<arg[bi + 1].business_url>>
    /\ pc' = "ON_PAGE"
    /\ UNCHANGED <<otherVars, collection, storeVars, fn, arg, records, result, exc, run, lastLoop,
                   rets, extracted, firstRun>>

R_OnPage ==
    /\ pc = "ON_PAGE"
    /\ fn = "get_and_store_reviews"

\* get_all_reviews_in_page(current_page, business) (line 264)
reviews_in_current_page == get_all_reviews_in_page(page_source, arg[bi])

\* lines 265-267: the k-th insert_review of the page raises, before
\* reviews.append(review); nothing catches it
R_StoreRaises ==
    /\ R_OnPage
    /\ \E k \in 1..Len(reviews_in_current_page) :
          LET p == PersistReviews(collection, SubSeq(reviews_in_current_page, 1, k - 1), <<>>) IN
          /\ records' = records \o SubSeq(reviews_in_current_page, 1, k - 1)
          /\ collection' = p.coll
          /\ rets' = rets \o p.rets
    /\ exc' = "store"
    /\ Propagate
    /\ UNCHANGED <<otherVars, storeVars, site, loaded, fn, arg, bi, run, fetched, lastLoop,
                   extracted, firstRun>>

\* lines 263-267: every review of the page is offered to the store and appended
R_PersistPage ==
    /\ R_OnPage
    /\ LET p == PersistReviews(collection, reviews_in_current_page, <<>>) IN
       /\ records' = records \o reviews_in_current_page
       /\ collection' = p.coll
       /\ rets' = rets \o p.rets
       /\ extracted' = extracted \o reviews_in_current_page
    /\ UNCHANGED <<otherVars, storeVars, fn, arg, bi, run, firstRun>>

\* line 269: find_next_page_arrow raises; nothing catches it
R_ArrowRaises ==
    /\ R_PersistPage
    /\ ~find_next_page_arrow(page_source).ok
    /\ exc' = "parse"
    /\ Propagate
    /\ UNCHANGED <<site, loaded, fetched, lastLoop>>

\* lines 269-271: no "Next page" arrow; break, back to the for loop
R_LastPage ==
    /\ R_PersistPage
    /\ find_next_page_arrow(page_source).ok
    /\ find_next_page_arrow(page_source).val = None
    /\ lastLoop' = [start |-> fetched[1], fetched |-> fetched]
    /\ pc' = "FOR_BUSINESS"
    /\ UNCHANGED <<site, loaded, fetched, result, exc>>

\* lines 272-273: web_driver.get(new_url) raises; nothing catches it
R_FetchRaises ==
    /\ R_PersistPage
    /\ HasNextPage
    /\ exc' = "fetch"
    /\ Propagate
    /\ UNCHANGED <<site, loaded, fetched, lastLoop>>

\* lines 272-273: web_driver.get(new_url) loads the next page
R_NextPage ==
    /\ R_PersistPage
    /\ HasNextPage
    /\ \E page \in Served(new_url, ReviewPages) : Load(new_url, page)
    /\ fetched' = Append(fetched, new_url)
    /\ UNCHANGED <<pc, result, exc, lastLoop>>

(***************************************************************************)
(* The crawls, run by one caller on a fresh collection.                    *)
(***************************************************************************)
InitCrawl ==
    /\ collection = <<>>
    /\ calls = <<>>
    /\ ncalls = 0
    /\ InitCrawlVars
    /\ InitExtractVars
    /\ InitGot
    /\ InitSession
    /\ InitWriterVars
    /\ InitFitbitVars

NextCrawl ==
    \/ B_Call_FetchRaises
    \/ B_Call
    \/ B_ParseRaises
    \/ B_StoreRaises
    \/ B_ArrowRaises
    \/ B_LastPage
    \/ B_FetchRaises
    \/ B_NextPage
    \/ R_Call
    \/ R_Return
    \/ R_BusinessFetchRaises
    \/ R_BusinessPage
    \/ R_StoreRaises
    \/ R_ArrowRaises
    \/ R_LastPage
    \/ R_FetchRaises
    \/ R_NextPage

SpecCrawl == InitCrawl /\ [][NextCrawl]_vars

\* the crawls, and the caller's re-runs of a crawl that ran to its end
NextRerun ==
    \/ NextCrawl
    \/ B_Rerun_FetchRaises
    \/ B_Rerun
    \/ R_Rerun

SpecRerun == InitCrawl /\ [][NextRerun]_vars

\* the steps of a running crawl (not the caller's invocations): Python runs
\* the loop on until it returns or raises
CrawlStep ==
    \/ B_ParseRaises \/ B_StoreRaises \/ B_ArrowRaises \/ B_LastPage
    \/ B_FetchRaises \/ B_NextPage
    \/ R_Return \/ R_BusinessFetchRaises \/ R_BusinessPage
    \/ R_StoreRaises \/ R_ArrowRaises \/ R_LastPage \/ R_FetchRaises \/ R_NextPage

FairSpecCrawl == SpecCrawl /\ WF_vars(CrawlStep)

(***************************************************************************)
(* get_all_reviews_in_page called on its own, on any page of cards.        *)
(***************************************************************************)
\* GoodCard with one required field absent or unparsable
BadCards ==
    {[f \in DOMAIN GoodCard \ {g} |-> GoodCard[f]] : g \in DOMAIN GoodCard}
        \cup {[GoodCard EXCEPT !.date = <<"yesterday">>],
              [GoodCard EXCEPT !.date = <<"April 2023">>],
              [GoodCard EXCEPT !.label = <<"5", "bubbles">>],
              [GoodCard EXCEPT !.label = <<".", "of", "5", "bubbles">>],
              [GoodCard EXCEPT !.visit = <<"Written", "last week">>],
              [GoodCard EXCEPT !.visit = <<"April 3, 2023", "by", "ann">>]}

Cards == {GoodCard, OtherCard} \cup BadCards

InitExtract ==
    /\ collection = <<>>
    /\ calls = <<>>
    /\ ncalls = 0
    /\ InitCrawlVars
    /\ x_page \in [listings : {<<>>}, cards : SeqsUpTo(Cards, MaxCards), nav : {<<>>}]
    /\ x_business \in BusinessDicts
    /\ x_reviews = <<>>
    /\ InitGot
    /\ InitSession
    /\ InitWriterVars
    /\ InitFitbitVars

\* reviews_in_current_page = get_all_reviews_in_page(current_page, business)
Extract ==
    /\ x_reviews = <<>>
    /\ x_reviews' = <<get_all_reviews_in_page(x_page, x_business)>>
    /\ UNCHANGED <<collection, storeVars, crawlVars, x_page, x_business, got, session,
                   writerVars, fitbitVars>>

NextExtract == Extract

SpecExtract == InitExtract /\ [][NextExtract]_vars

(***************************************************************************)
(* Several clients of one collection, each inside insert_business or       *)
(* insert_review: find_one and insert_one are separate requests.           *)
(***************************************************************************)
\* clients writing to the collection at the same time
MaxWriters == 2

Writers == 1..MaxWriters

\* the record an insert call carries: its hash, its type and its document
InsertHash(call) ==
    IF call.op = "insert_business"
    THEN Business_get_object_hash(call.arg)
    ELSE Review_get_object_hash(call.arg)

InsertType(call) == IF call.op = "insert_business" THEN BUSINESS ELSE REVIEW

InsertDocument(call) ==
    IF call.op = "insert_business"
    THEN Business_to_mongo_document(call.arg)
    ELSE Review_to_mongo_document(call.arg)

WriterHash(w) == InsertHash(writers[w])

WriterType(w) == InsertType(writers[w])

\* the records the writers insert
WriterCalls ==
    {[op |-> "insert_business", arg |-> b] : b \in Businesses}
        \cup {[op |-> "insert_review", arg |-> r] : r \in Reviews}

InitWriters ==
    /\ collection = <<>>
    /\ calls = <<>>
    /\ ncalls = 0
    /\ InitCrawlVars
    /\ InitExtractVars
    /\ InitGot
    /\ InitSession
    /\ InitFitbitVars
    /\ writers = [w \in Writers |-> [pc |-> "idle"]]

\* lines 126, 132: writer w enters insert_business / insert_review and its
\* find_one is answered
W_FindOne(w) ==
    /\ writers[w].pc = "idle"
    /\ \E call \in WriterCalls :
          writers' = [writers EXCEPT ![w] =
              [pc |-> "checked", op |-> call.op, arg |-> call.arg, before |-> collection,
               found |-> Exists(collection, InsertHash(call), InsertType(call))]]
    /\ UNCHANGED <<collection, storeVars, crawlVars, extractVars, got, session, fitbitVars>>

\* lines 127, 133: the document exists; return False
W_ReturnFalse(w) ==
    /\ writers[w].pc = "checked"
    /\ writers[w].found
    /\ writers' = [writers EXCEPT ![w] = [@ EXCEPT !.pc = "done"] @@ [ret |-> FALSE]]
    /\ UNCHANGED <<collection, storeVars, crawlVars, extractVars, got, session, fitbitVars>>

\* lines 128-129, 134-135: insert_one, return True
W_InsertOne(w) ==
    /\ writers[w].pc = "checked"
    /\ ~writers[w].found
    /\ collection' = InsertOne(collection, InsertDocument(writers[w]))
    /\ writers' = [writers EXCEPT ![w] = [@ EXCEPT !.pc = "done"] @@ [ret |-> TRUE]]
    /\ UNCHANGED <<storeVars, crawlVars, extractVars, got, session, fitbitVars>>

NextWriters ==
    \E w \in Writers :
        \/ W_FindOne(w)
        \/ W_ReturnFalse(w)
        \/ W_InsertOne(w)

SpecWriters == InitWriters /\ [][NextWriters]_vars

(***************************************************************************)
(* FitbitMongoClient (src/web_mining/import_data_from_api.py): the imports *)
(* of sleep and heart-rate samples.                                        *)
(***************************************************************************)
\* import calls one caller makes in one behaviour
MaxImports == 2

\* the days the API has data of; the date "2023-04-dd" is <<2023, 4, dd>>
FitbitDays == {22, 23}

FitbitDate(day) == <<2023, 4, day>>

\* date ranges startTime..endTime a caller asks for
FitbitRanges == {r \in FitbitDays \X FitbitDays : r[1] <= r[2]}

\* a sleep log entry of the API, and one the API returns without 'levels'
SleepItem(day) ==
    [dateOfSleep |-> FitbitDate(day), startTime |-> <<FitbitDate(day), "23:10">>,
     endTime |-> <<FitbitDate(day), "06:40">>, duration |-> 27000000, efficiency |-> 93,
     minutesAsleep |-> 410, minutesAwake |-> 40, minutesToFallAsleep |-> 0,
     timeInBed |-> 450,
     levels |-> [summary |-> [deep |-> 80, light |-> 240, rem |-> 90, wake |-> 40],
                 data |-> <<[level |-> "light", seconds |-> 600]>>]]

SleepItemWithoutLevels(day) ==
    [f \in DOMAIN SleepItem(day) \ {"levels"} |-> SleepItem(day)[f]]

\* the heart-rate data of a day, with or without a resting heart rate
HeartData(day, resting) ==
    [activities_heart |->
        <<[dateTime |-> FitbitDate(day),
           value |-> IF resting
                     THEN [heartRateZones |-> <<"Fat Burn", "Cardio">>, restingHeartRate |-> 61]
                     ELSE [heartRateZones |-> <<"Fat Burn", "Cardio">>]]>>,
     activities_heart_intraday |-> [dataset |-> <<[time |-> "00:00", value |-> 64]>>]]

\* what the API can hold: per day no sleep entry or one, and one heart-rate record
FitbitApis ==
    [sleep : {f \in [FitbitDays -> UNION {{<<>>, <<SleepItem(d)>>, <<SleepItemWithoutLevels(d)>>}
                                              : d \in FitbitDays}] :
                 \A d \in FitbitDays : \A i \in 1..Len(f[d]) : f[d][i].dateOfSleep = FitbitDate(d)},
     heart : {f \in [FitbitDays -> UNION {{HeartData(d, TRUE), HeartData(d, FALSE)}
                                              : d \in FitbitDays}] :
                 \A d \in FitbitDays : f[d].activities_heart[1].dateTime = FitbitDate(d)}]

\* the samples of the days startTime..endTime, in day order
RECURSIVE SamplesFrom(_, _, _)
SamplesFrom(log, day, endTime) ==
    IF day > endTime THEN <<>> ELSE log[day] \o SamplesFrom(log, day + 1, endTime)

\* fitbit_api_client.get_sleep_data_for_data_range(startTime, endTime) (line 91)
get_sleep_data_for_data_range(startTime, endTime) ==
    [sleep |-> SamplesFrom(api.sleep, startTime, endTime)]

\* fitbit_api_client.get_heart_rate_data_for_data_range(startTime, endTime, detail_level)
\* (line 132): one record per day
get_heart_rate_data_for_data_range(startTime, endTime) ==
    SamplesFrom([d \in FitbitDays |-> <<api.heart[d]>>], startTime, endTime)

\* hashlib.sha256(USER_ID.encode('utf-8')).hexdigest() (lines 92, 136)
user_id == Sha256HexDigest("USER_ID")

\* lines 97-114: the document of a sleep entry; KeyError when a key is absent
SleepDocument(item) ==
    IF "levels" \notin DOMAIN item THEN Raise
    ELSE Return([id |-> user_id, type |-> "sleep", dateOfSleep |-> item.dateOfSleep,
                 metrics |-> [startTime |-> item.startTime, endTime |-> item.endTime,
                              duration |-> item.duration, efficiency |-> item.efficiency,
                              minutesAsleep |-> item.minutesAsleep,
                              minutesAwake |-> item.minutesAwake,
                              minutesToFallAsleep |-> item.minutesToFallAsleep,
                              timeInBed |-> item.timeInBed],
                 summary |-> item.levels.summary, data |-> item.levels.data])

\* lines 141-151: the document of a heart-rate record
HeartDocument(heart_data) ==
    LET first == heart_data.activities_heart[1]
        document == [id |-> user_id, type |-> "heart", date |-> first.dateTime,
                     heartRateZones |-> first.value.heartRateZones,
                     heartIntraday |-> heart_data.activities_heart_intraday.dataset]
    IN  IF "restingHeartRate" \in DOMAIN first.value
        THEN Return(document @@ [restingHeartrate |-> first.value.restingHeartRate])
        ELSE Return(document)

\* lines 95-116: for item in sleep_data['sleep']: insert_one(document); the
\* loop ends at the first item that raises: [ok, coll]
RECURSIVE ImportSleepItems(_, _)
ImportSleepItems(coll, items) ==
    IF items = <<>> THEN [ok |-> TRUE, coll |-> coll]
    ELSE IF ~SleepDocument(Head(items)).ok THEN [ok |-> FALSE, coll |-> coll]
    ELSE ImportSleepItems(InsertOne(coll, SleepDocument(Head(items)).val), Tail(items))

\* lines 139-154: for heart_data in multiple_heart_data: insert_one(document)
RECURSIVE ImportHeartItems(_, _)
ImportHeartItems(coll, items) ==
    IF items = <<>> THEN [ok |-> TRUE, coll |-> coll]
    ELSE ImportHeartItems(InsertOne(coll, HeartDocument(Head(items)).val), Tail(items))

\* FitbitMongoClient.import_sleep_data_for_daterange (lines 90-117)
import_sleep_data_for_daterange(coll, startTime, endTime) ==
    ImportSleepItems(coll, get_sleep_data_for_data_range(startTime, endTime).sleep)

\* FitbitMongoClient.import_heart_data_for_daterange (lines 119-157)
import_heart_data_for_daterange(coll, startTime, endTime) ==
    ImportHeartItems(coll, get_heart_rate_data_for_data_range(startTime, endTime))

\* FitbitMongoClient.__init__ on an empty collection; the API holds some data
InitFitbit ==
    /\ collection = <<>>
    /\ calls = <<>>
    /\ ncalls = 0
    /\ InitCrawlVars
    /\ InitExtractVars
    /\ InitGot
    /\ InitSession
    /\ InitWriterVars
    /\ fitbit = <<>>
    /\ api \in FitbitApis
    /\ imports = <<>>

\* a call import_sleep_data_for_daterange(startTime, endTime)
ImportSleep ==
    \E range \in FitbitRanges :
        LET r == import_sleep_data_for_daterange(fitbit, range[1], range[2]) IN
        /\ Len(imports) < MaxImports
        /\ fitbit' = r.coll
        /\ imports' = Append(imports, [op |-> "sleep", startTime |-> range[1],
                                       endTime |-> range[2], ok |-> r.ok])
        /\ UNCHANGED <<collection, storeVars, crawlVars, extractVars, got, session,
                       writerVars, api>>

\* a call import_heart_data_for_daterange(startTime, endTime)
ImportHeart ==
    \E range \in FitbitRanges :
        LET r == import_heart_data_for_daterange(fitbit, range[1], range[2]) IN
        /\ Len(imports) < MaxImports
        /\ fitbit' = r.coll
        /\ imports' = Append(imports, [op |-> "heart", startTime |-> range[1],
                                       endTime |-> range[2], ok |-> r.ok])
        /\ UNCHANGED <<collection, storeVars, crawlVars, extractVars, got, session,
                       writerVars, api>>

NextFitbit ==
    \/ ImportSleep
    \/ ImportHeart

SpecFitbit == InitFitbit /\ [][NextFitbit]_vars

(***************************************************************************)
(* Properties of the imports (SpecFitbit).                                 *)
(***************************************************************************)
\* the documents of an import call: what it builds from the API's samples
DocumentsOf(call) ==
    LET built == IF call.op = "sleep"
                 THEN [i \in 1..Len(get_sleep_data_for_data_range(call.startTime, call.endTime).sleep)
                         |-> SleepDocument(get_sleep_data_for_data_range(call.startTime, call.endTime).sleep[i])]
                 ELSE [i \in 1..Len(get_heart_rate_data_for_data_range(call.startTime, call.endTime))
                         |-> HeartDocument(get_heart_rate_data_for_data_range(call.startTime, call.endTime)[i])]
    IN  {built[i].val : i \in {j \in 1..Len(built) : built[j].ok}}

\* the stored documents that are document but for the _id the store gave them
StoredAs(document) ==
    {i \in 1..Len(fitbit) :
        [f \in DOMAIN fitbit[i] \ {"_id"} |-> fitbit[i][f]] = document}

\* C11 as stated: when an import has been called twice for the same date
\* range, the API returning the same samples, the collection holds one
\* document per sample, not two.
C11_ImportTwiceOneDocumentPerSample ==
    \A i, j \in 1..Len(imports) :
        (i < j /\ imports[i].op = imports[j].op
               /\ imports[i].startTime = imports[j].startTime
               /\ imports[i].endTime = imports[j].endTime
               /\ imports[i].ok /\ imports[j].ok)
            => \A document \in DocumentsOf(imports[i]) : Cardinality(StoredAs(document)) = 1

(***************************************************************************)
(* Properties of the crawls (SpecCrawl, FairSpecCrawl, SpecRerun) and of   *)
(* the extraction (SpecExtract).                                           *)
(***************************************************************************)
\* the "Next page" link of a page as the site defines it: the href of the first
\* navigation anchor whose accessible label is "Next page", None without one
NextLink(page) ==
    LET labelled == {i \in 1..Len(page.nav) :
                        /\ "aria_label" \in DOMAIN page.nav[i]
                        /\ page.nav[i].aria_label = "Next page"}
    IN  IF labelled = {} THEN None
        ELSE <<page.nav[CHOOSE i \in labelled : \A j \in labelled : i <= j].href>>

\* the pages linked by "Next page" links from url, among the pages served so
\* far: [urls, kind], kind "chain" when the last page has no Next link,
\* "cycle" when a link leads back, "open" when a link leads to a page not yet served
RECURSIVE ChainFrom(_, _)
ChainFrom(url, urls) ==
    IF \E i \in 1..Len(urls) : urls[i] = url THEN [urls |-> urls, kind |-> "cycle"]
    ELSE IF url \notin DOMAIN site THEN [urls |-> Append(urls, url), kind |-> "open"]
    ELSE IF NextLink(site[url]) = None THEN [urls |-> Append(urls, url), kind |-> "chain"]
    ELSE ChainFrom(Url(NextLink(site[url])[1]), Append(urls, url))

Chain(url) == ChainFrom(url, <<>>)

IsPrefix(s, t) == Len(s) <= Len(t) /\ SubSeq(t, 1, Len(s)) = s

NoRepeat(s) == \A i, j \in 1..Len(s) : s[i] = s[j] => i = j

\* C3 as stated: in both crawls an exception raised while a page is fetched
\* (the start location included), parsed or persisted moves the driver to DONE
\* and never reaches the caller.
C3_ExceptionsEndAtDone ==
    /\ pc # "RAISED"
    /\ exc # "none" => pc = "DONE"

\* C4 as stated: a crawl that has ended, early or not, has returned its list,
\* and the list holds every record of the pages processed before the failure.
C4_ReturnsAccumulated ==
    pc \in {"DONE", "RAISED"} =>
        /\ result # <<>>
        /\ IsPrefix(extracted, result[1])

\* C5: on a finite chain of pages linked by "Next page" links whose last page
\* has no such link, and with no failing page, the pagination loop fetches the
\* pages of the chain in order, each exactly once, and terminates.
C5_Safety ==
    /\ (fetched # <<>> /\ exc = "none" /\ Chain(fetched[1]).kind # "cycle")
          => IsPrefix(fetched, Chain(fetched[1]).urls) /\ NoRepeat(fetched)
    /\ lastLoop # <<>>
          => /\ Chain(lastLoop.start).kind = "chain"
             /\ lastLoop.fetched = Chain(lastLoop.start).urls

C5_ChainFetchedOnceAndTerminates ==
    /\ []C5_Safety
    /\ (pc = "ON_PAGE") ~> (pc # "ON_PAGE" \/ Chain(fetched[1]).kind = "cycle")

\* a loop over a chain of several pages has ended for want of a Next link
C5_Witness ==
    /\ lastLoop # <<>>
    /\ Len(lastLoop.fetched) >= 2
    /\ exc = "none"
    /\ pc = "DONE"

\* the Business objects listed on the pages of the chain from url
ListedOn(url) ==
    LET urls == Chain(url).urls IN
    UNION {{get_all_business_in_page(site[urls[i]]).val[j] :
              j \in 1..Len(get_all_business_in_page(site[urls[i]]).val)} :
           i \in 1..Len(urls)}

\* the stored documents of a Business
DocsOf(business) ==
    LET Same(doc) == /\ doc.type = BUSINESS
                     /\ doc.business_name = business.business_name
                     /\ doc.business_url = business.business_url
    IN  SelectSeq(collection, Same)

ListingCrawlCompleted ==
    /\ fn = "get_and_store_businesses"
    /\ run = 1
    /\ pc = "DONE"
    /\ exc = "none"

\* C7: a listing crawl that starts on an empty store and walks a finite chain
\* of pages without failure leaves exactly one Business document per distinct
\* listing of those pages, and has fetched each page once.
C7_OneDocumentPerListing ==
    ListingCrawlCompleted =>
        /\ \A b \in ListedOn(arg) : Len(DocsOf(b)) = 1
        /\ Len(collection) = Cardinality(ListedOn(arg))
        /\ Len(fetched) = Len(Chain(arg).urls)
        /\ NoRepeat(fetched)

\* two pages were crawled, a listing occurred more than once, and two
\* documents are stored
C7_Witness ==
    /\ ListingCrawlCompleted
    /\ Len(fetched) = 2
    /\ Len(records) > Len(collection)
    /\ Len(collection) = 2

\* C8: when a crawl that ran to its end without an exception is run again over
\* the same unchanged pages, every insert of the second run returns False and
\* the collection stays what it was after the first run.
C8_RerunIdempotent ==
    run >= 2 =>
        /\ \A i \in 1..Len(rets) : ~rets[i]
        /\ collection = firstRun.collection

\* a second run has ended after offering several records to the store
C8_Witness ==
    /\ run = 2
    /\ pc = "DONE"
    /\ exc = "none"
    /\ Len(rets) >= 2
    /\ collection # <<>>

\* a card none of whose required fields is absent or unparsable
WellFormed(card) ==
    /\ {"username", "date", "title", "text", "label", "visit"} \subseteq DOMAIN card
    /\ card.date[1] \in {"Jan 2023", "Apr 2023"}
    /\ \E i \in 1..(Len(card.label) - 1) :
          card.label[i] \in {"4.7", "5.0", "4", "5"} /\ card.label[i + 1] = "of"
    /\ card.visit \in {<<"Written", "April 3, 2023">>, <<"Written", "January 9, 2023">>}

WellFormedCards == SelectSeq(x_page.cards, WellFormed)

\* C6: of the N review cards of a page, M of which have a required field
\* absent or unparsable, get_all_reviews_in_page returns the reviews of the
\* N-M well-formed cards, in page order; a malformed card stops nothing.
C6_MalformedCardsSkipped ==
    x_reviews # <<>> =>
        /\ Len(x_reviews[1]) = Len(WellFormedCards)
        /\ \A i \in 1..Len(WellFormedCards) :
              /\ x_reviews[1][i].reviewer = WellFormedCards[i].username
              /\ x_reviews[1][i].review_title = WellFormedCards[i].title
              /\ x_reviews[1][i].review_text = WellFormedCards[i].text
              /\ x_reviews[1][i].business.business_name = x_business.business_name

\* a malformed card came before a well-formed one, which was extracted
C6_Witness ==
    /\ x_reviews # <<>>
    /\ Len(x_page.cards) = 2
    /\ ~WellFormed(x_page.cards[1])
    /\ WellFormed(x_page.cards[2])
    /\ Len(x_reviews[1]) = 1

(***************************************************************************)
(* Properties of the gateway (SpecStore).                                  *)
(***************************************************************************)
\* the identity hash and the type tag of the record a call carries
CallHash(call) ==
    IF call.op = "insert_business"
    THEN Business_get_object_hash(call.arg)
    ELSE Review_get_object_hash(call.arg)

CallType(call) == IF call.op = "insert_business" THEN BUSINESS ELSE REVIEW

\* the documents of coll with this unique_id
WithHash(coll, unique_id) == Find(coll, [unique_id |-> unique_id])

\* the caller's last two calls carried the same record
SameRecordTwice ==
    /\ Len(calls) = 2
    /\ calls[1].op = calls[2].op
    /\ calls[1].arg = calls[2].arg

\* C1: with a single writer, after any sequence of insert_business and
\* insert_review calls the collection never holds two documents with the same
\* unique_id and the same type.
C1_NoDuplicateDocuments == NoDuplicates(collection)

\* an insert of a stored record has been attempted and the collection holds documents
C1_Witness ==
    /\ Len(calls) = 2
    /\ ~calls[2].ret
    /\ WithHash(calls[2].before, CallHash(calls[2])) # <<>>
    /\ Len(collection) >= 2

\* C2: inserting the same record twice in a row into a store that did not hold
\* its identity hash returns True and then False, and the store then holds
\* exactly one document with that identity hash.
C2_InsertTwice ==
    (SameRecordTwice /\ WithHash(calls[1].before, CallHash(calls[1])) = <<>>)
        => /\ calls[1].ret
           /\ ~calls[2].ret
           /\ Len(WithHash(collection, CallHash(calls[2]))) = 1

C2_Witness ==
    /\ SameRecordTwice
    /\ calls[1].before # <<>>
    /\ WithHash(calls[1].before, CallHash(calls[1])) = <<>>
    /\ calls[1].ret
    /\ ~calls[2].ret

\* two Review objects agree on the identity fields
SameReviewIdentity(r1, r2) ==
    /\ r1.business.business_name = r2.business.business_name
    /\ r1.reviewer = r2.reviewer
    /\ r1.review_title = r2.review_title
    /\ r1.review_text = r2.review_text
    /\ r1.review_rating = r2.review_rating

\* two Business objects have the same name and url
SameBusinessIdentity(b1, b2) ==
    /\ b1.business_name = b2.business_name
    /\ b1.business_url = b2.business_url

\* the last two calls carried records with the same identity fields
SameIdentityTwice ==
    /\ Len(calls) = 2
    /\ calls[1].op = calls[2].op
    /\ IF calls[1].op = "insert_business"
       THEN SameBusinessIdentity(calls[1].arg, calls[2].arg)
       ELSE SameReviewIdentity(calls[1].arg, calls[2].arg)

\* C9: the identity hash depends on the identity fields only (name and url of a
\* Business; business name, reviewer, title, body and rating of a Review,
\* whatever the two dates are), so the insert of the second of two records
\* with the same identity fields returns False and stores nothing.
C9_HashOfIdentityFields ==
    SameIdentityTwice
        => /\ CallHash(calls[1]) = CallHash(calls[2])
           /\ ~calls[2].ret
           /\ collection = calls[2].before

\* two reviews that differ in both dates were inserted one after the other
C9_Witness ==
    /\ SameIdentityTwice
    /\ calls[1].op = "insert_review"
    /\ calls[1].arg.review_date # calls[2].arg.review_date
    /\ calls[1].arg.visit_data # calls[2].arg.visit_data
    /\ calls[1].ret
    /\ ~calls[2].ret

\* the last call and what it found in the store
LastCall == calls[Len(calls)]

HeldSameHashAndType(call) ==
    \E i \in 1..Len(call.before) :
        /\ call.before[i].unique_id = CallHash(call)
        /\ call.before[i].type = CallType(call)

HeldSameHash(call) ==
    \E i \in 1..Len(call.before) : call.before[i].unique_id = CallHash(call)

\* C10 as stated: insert_business and insert_review return False (no write)
\* exactly when the store already holds a document with the same unique_id and
\* the same type, so a document of the other type does not block the insert.
C10_FalseIffSameHashAndType ==
    calls # <<>> => (~LastCall.ret <=> HeldSameHashAndType(LastCall))

\* C10 as amended: insert_business and insert_review return False (no write)
\* exactly when the store already holds a document with the same unique_id,
\* whatever its type; otherwise they append the record's document and return True.
C10_FalseIffSameHash ==
    calls # <<>> =>
        /\ ~LastCall.ret <=> HeldSameHash(LastCall)
        /\ ~LastCall.ret => collection = LastCall.before
        /\ LastCall.ret =>
              /\ Len(collection) = Len(LastCall.before) + 1
              /\ SubSeq(collection, 1, Len(LastCall.before)) = LastCall.before
              /\ collection[Len(collection)].unique_id = CallHash(LastCall)
              /\ collection[Len(collection)].type = CallType(LastCall)

\* an insert was refused because of a document of the other type
C10_Witness ==
    /\ calls # <<>>
    /\ ~LastCall.ret
    /\ HeldSameHash(LastCall)
    /\ ~HeldSameHashAndType(LastCall)
    /\ collection = LastCall.before

\* the stored documents of a type at the time of the last get call, in
\* storage order
OfType(type) ==
    LET Is(doc) == doc.type = type IN SelectSeq(got.of, Is)

GotType == IF got.op = "get_businesses" THEN BUSINESS ELSE REVIEW

\* C12: get_businesses (get_reviews) returns one entry for every stored
\* document of type business (review) and none for the other type; an entry
\* has none of the keys _id, unique_id and type, and every other field of its
\* document with the stored value.
C12_GetReturnsStrippedDocumentsOfType ==
    got # None =>
        /\ Len(got.ret) = Len(OfType(GotType))
        /\ Len(got.ret) = Cardinality({i \in 1..Len(got.of) : got.of[i].type = GotType})
        /\ \A i \in 1..Len(got.ret) :
              /\ DOMAIN got.ret[i] = DOMAIN OfType(GotType)[i] \ {"_id", "unique_id", "type"}
              /\ \A k \in DOMAIN got.ret[i] : got.ret[i][k] = OfType(GotType)[i][k]

\* get_businesses was called on a collection holding documents of both types
C12_Witness ==
    /\ got # None
    /\ got.op = "get_businesses"
    /\ Len(got.ret) >= 1
    /\ Len(got.ret) < Len(got.of)
    /\ ncalls >= 1

(***************************************************************************)
(* Further properties of the crawls.                                       *)
(***************************************************************************)
\* C13 as stated: the browser session of a crawl is closed on every exit path
\* of the crawl: after the last page, after an early end by a caught
\* exception, and after a propagated exception.
C13_BrowserReleased ==
    pc \in {"DONE", "RAISED"} => session = "closed"

\* the records of the pages at urls, in page order, as the running crawl
\* extracts them
RECURSIVE RecordsOn(_)
RecordsOn(urls) ==
    IF urls = <<>> THEN <<>>
    ELSE (IF fn = "get_and_store_businesses"
          THEN get_all_business_in_page(site[Head(urls)]).val
          ELSE get_all_reviews_in_page(site[Head(urls)], arg[bi]))
         \o RecordsOn(Tail(urls))

IsSuffix(s, t) == Len(s) <= Len(t) /\ SubSeq(t, Len(t) - Len(s) + 1, Len(t)) = s

\* the store holds a document with the identity hash of the record
Stored(record) ==
    LET unique_id == IF fn = "get_and_store_businesses"
                     THEN Business_get_object_hash(record)
                     ELSE Review_get_object_hash(record)
    IN  \E i \in 1..Len(collection) : collection[i].unique_id = unique_id

\* every record of the pages at urls was passed to the store gateway and
\* accumulated, the records of the last of these pages last
Offered(urls) ==
    /\ IsSuffix(RecordsOn(urls), records)
    /\ Len(rets) >= Len(RecordsOn(urls))
    /\ \A i \in 1..Len(RecordsOn(urls)) : Stored(RecordsOn(urls)[i])

\* C14: pages are processed in next-link order without fetch-ahead: while
\* page k+1 is the loaded page, every record of the pages 1..k of the loop
\* has been offered to the store, and when the fetch of the next page was
\* attempted (and raised) every record of the current page had been too.
C14_OfferedBeforeNextFetch ==
    /\ pc = "ON_PAGE" => Offered(SubSeq(fetched, 1, Len(fetched) - 1))
    /\ (exc = "fetch" /\ fetched # <<>>) => Offered(fetched)

\* a second page is loaded after a page that held records
C14_Witness ==
    /\ pc = "ON_PAGE"
    /\ Len(fetched) >= 2
    /\ RecordsOn(<<fetched[1]>>) # <<>>
    /\ Stored(RecordsOn(<<fetched[1]>>)[1])

(***************************************************************************)
(* Properties of concurrent writers (SpecWriters).                         *)
(***************************************************************************)
\* the writers that have returned True for a record of identity hash unique_id
ReturnedTrue(unique_id) ==
    {w \in Writers : /\ writers[w].pc = "done"
                      /\ writers[w].ret
                      /\ WriterHash(w) = unique_id}

\* the writers that have entered an insert
Entered == {w \in Writers : writers[w].pc # "idle"}

\* C15: an insert is a find_one followed by a separate insert_one: a writer
\* returns True and writes exactly when its find_one found nothing, whatever
\* was written since; so the store holds as many documents of a hash as
\* writers returned True for it, two documents of the same hash and type arise
\* exactly when two writers read before either wrote, and never while only
\* one writer has entered.
C15_InsertNotAtomic ==
    /\ \A w \in Entered :
          /\ writers[w].found = (WithHash(writers[w].before, WriterHash(w)) # <<>>)
          /\ writers[w].pc = "done" => writers[w].ret = ~writers[w].found
    /\ \A i \in 1..Len(collection) :
          Len(WithHash(collection, collection[i].unique_id))
              = Cardinality(ReturnedTrue(collection[i].unique_id))
    /\ ~NoDuplicates(collection) =>
          \E w1, w2 \in Entered :
              /\ w1 # w2
              /\ WriterHash(w1) = WriterHash(w2)
              /\ WriterType(w1) = WriterType(w2)
              /\ w1 \in ReturnedTrue(WriterHash(w1))
              /\ w2 \in ReturnedTrue(WriterHash(w1))
              /\ WithHash(writers[w1].before, WriterHash(w1)) = <<>>
              /\ WithHash(writers[w2].before, WriterHash(w1)) = <<>>
    /\ Cardinality(Entered) <= 1 => NoDuplicates(collection)

\* two writers have returned True for the same record, and the store holds
\* two documents with its identity hash and type
C15_Witness ==
    /\ ~NoDuplicates(collection)
    /\ \E w1, w2 \in Entered :
          /\ w1 # w2
          /\ writers[w1].pc = "done" /\ writers[w1].ret
          /\ writers[w2].pc = "done" /\ writers[w2].ret
          /\ writers[w1].arg = writers[w2].arg

(***************************************************************************)
(* Further properties of the gateway (SpecStore).                          *)
(***************************************************************************)
\* C16: stored documents are immutable and the store only grows: every call
\* of the gateway leaves each stored document where and as it was, and an
\* insert of a record whose identity hash is present returns False and leaves
\* the collection as it was.
C16_StoredDocumentsImmutable ==
    [][/\ IsPrefix(collection, collection')
       /\ (/\ ncalls' # ncalls
           /\ calls' # <<>>
           /\ calls'[Len(calls')].before = collection
           /\ WithHash(collection, CallHash(calls'[Len(calls')])) # <<>>)
            => (~calls'[Len(calls')].ret /\ collection' = collection)]_vars

\* insert_review of a review whose hash a stored document holds with other
\* dates has returned False, and the stored document has its dates still
C16_Witness ==
    /\ calls # <<>>
    /\ calls[Len(calls)].op = "insert_review"
    /\ ~calls[Len(calls)].ret
    /\ collection = calls[Len(calls)].before
    /\ \E i \in 1..Len(collection) :
          /\ collection[i].unique_id = CallHash(calls[Len(calls)])
          /\ collection[i].type = REVIEW
          /\ collection[i].review_date # Str(calls[Len(calls)].arg.review_date)

(***************************************************************************)
(* Further properties of the listing crawl (SpecCrawl, FairSpecCrawl).     *)
(***************************************************************************)
\* a listing element whose name and link can be extracted
WellFormedListing(element) == {"text", "href"} \subseteq DOMAIN element

\* the listing crawl has ended on the loaded page, and not because a fetch,
\* an insert or the lookup of the next link raised
EndedOnPage ==
    /\ fn = "get_and_store_businesses"
    /\ pc = "DONE"
    /\ loaded # None
    /\ exc \notin {"fetch", "store"}
    /\ find_next_page_arrow(page_source).ok

\* C17 as stated: a malformed listing element never aborts its page: the
\* other listings of the page are extracted and stored and the crawl goes on
\* to the next page, so it ends on a page only for want of a Next link and
\* with the well-formed listings of that page stored.
C17_MalformedListingDropped ==
    EndedOnPage =>
        /\ \A i \in 1..Len(page_source.listings) :
              WellFormedListing(page_source.listings[i])
                  => Stored(BusinessOfElement(page_source.listings[i]).val)
        /\ find_next_page_arrow(page_source).val = None

(***************************************************************************)
(* Properties of the pagination of both crawls (SpecCrawl).                *)
(***************************************************************************)
\* where a pagination loop goes when it ends for want of a Next link: the
\* listing crawl returns, the review crawl goes back to its for loop
LoopDone == IF fn = "get_and_store_businesses" THEN "DONE" ELSE "FOR_BUSINESS"

\* C18: in an iteration in which nothing raises, the driver stays ON_PAGE
\* exactly when the current page has a navigation anchor labelled "Next page",
\* at whatever position, and the page it then fetches is that anchor's target;
\* on a page whose anchors carry other labels only, the loop is done.
C18_NextPageByLabel ==
    [][(pc = "ON_PAGE" /\ exc' = "none") =>
          /\ (pc' = "ON_PAGE") = (NextLink(page_source) # None)
          /\ NextLink(page_source) # None =>
                /\ loaded' = Url(NextLink(page_source)[1])
                /\ fetched' = Append(fetched, Url(NextLink(page_source)[1]))
          /\ NextLink(page_source) = None =>
                /\ pc' = LoopDone
                /\ UNCHANGED <<loaded, fetched>>]_vars

\* the Next link of the first page came second, after a previous-page
\* anchor, and its target is the loaded page
C18_Witness ==
    /\ pc = "ON_PAGE"
    /\ Len(fetched) = 2
    /\ Len(site[fetched[1]].nav) = 2
    /\ site[fetched[1]].nav[1].aria_label = "Previous page"
    /\ site[fetched[1]].nav[2].aria_label = "Next page"
    /\ loaded = Url(site[fetched[1]].nav[2].href)

(***************************************************************************)
(* Termination of the listing crawl (FairSpecCrawl).                       *)
(***************************************************************************)
InListingLoop == fn = "get_and_store_businesses" /\ pc = "ON_PAGE"

\* each page fetched after the first is the target of the Next link of the
\* page fetched before it, fetched before or not
FollowsNextLinks ==
    \A i \in 1..(Len(fetched) - 1) :
        /\ NextLink(site[fetched[i]]) # None
        /\ fetched[i + 1] = Url(NextLink(site[fetched[i]])[1])

\* the listing crawl has returned without any exception
ListingReturnedClean ==
    fn = "get_and_store_businesses" /\ pc = "DONE" /\ exc = "none"

\* the listing crawl has returned, or is in its loop on a cycle of Next links
ListingReturnedOrCycling ==
    \/ (fn = "get_and_store_businesses" /\ pc = "DONE")
    \/ (InListingLoop /\ Chain(arg).kind = "cycle")

\* C19: the listing crawl has no visited set and no page limit: it follows
\* the Next links wherever they lead, it returns only from a page without
\* Next link or from a page whose processing raised, and it does return
\* unless the Next links from the start location form a cycle; on a cycle
\* with no exception it is never DONE and fetches the same pages again.
C19_ListingCrawlEndsIffChainEnds ==
    /\ [](InListingLoop => FollowsNextLinks)
    /\ [](ListingReturnedClean =>
            /\ Chain(arg).kind = "chain"
            /\ fetched = Chain(arg).urls)
    /\ InListingLoop ~> ListingReturnedOrCycling

\* the Next links lead back to a page of the loop, which is fetched again
C19_Witness ==
    /\ InListingLoop
    /\ Chain(arg).kind = "cycle"
    /\ ~NoRepeat(fetched)
    /\ Len(fetched) > Len(Chain(arg).urls)

\* C20 as stated: whenever get_and_store_businesses returns, for want of a
\* Next link or after an exception caught by the loop, every Business of the
\* returned list has a document with its identity hash in the store.
C20_ReturnedBusinessesStored ==
    (fn = "get_and_store_businesses" /\ pc = "DONE") =>
        \A i \in 1..Len(result[1]) : Stored(result[1][i])

====
